---- MODULE Spec2Model ----
(***************************************************************************)
(* The asynchronous delivery pipeline of go-annotate's log package:        *)
(* Logger.Log (non-blocking enqueue on the buffered channel eventBuffer)   *)
(* and the socket worker Logger.manageConnectionAndSend (dial, backoff     *)
(* drain into eventBacklog, backlog replay, live sending loop).            *)
(*                                                                         *)
(* Producers and the worker are separate goroutines: every channel         *)
(* operation, dial and write is one atomic step; the worker-local work     *)
(* that follows a receive in the drain loop (append, size limit) is part   *)
(* of the same step because nothing else can observe eventBacklog.         *)
(***************************************************************************)
EXTENDS Integers, Sequences, FiniteSets, TLC

\* ---------------------------------------------------------------- bounds
\* Number of Log calls the producers make in a behaviour.
MaxLogCalls == 6
\* Capacity of eventBuffer (the code makes it 100000 in socket mode).
QueueCap == 2
\* Backlog limit C (the code's 10000, scaled) and eviction batch (the
\* code's 2000, scaled).
BacklogCap == 3
EvictBatch == 2
\* Consecutive failed dials followed in a behaviour.
MaxFailStreak == 7
\* Readings the wall clock can advance through.
MaxClock == 2
\* Callers of Logger.ID and the calls they make in total.
NumCallers == 3
MaxIDCalls == 5
\* Longest GO_ANNOTATE_LOG_TARGET value tried.
MaxTargetLen == 3
\* LogEnter and LogLeave calls made in a behaviour.
MaxEventCalls == 3

\* ------------------------------------------------------ program constants
retryBase == 1
maxRetry == 30
\* type Format int, its values by iota.
FormatJSON == 0
FormatCBOR == 1
FormatText == 2
FormatDebug == 3
\* No logger exists yet: init has not run.
NoFormat == -1

\* ------------------------------------------------------------------ state
VARIABLES
    eventBuffer,    \* Logger.eventBuffer: the buffered channel, FIFO
    logCalls,       \* number of Log calls made so far (names the events)
    accepted,       \* history: ids in the order they entered eventBuffer
    faults,         \* whether producers may submit events the marshaller rejects
    badIds,         \* history: ids of the submitted events the marshaller rejects
    pc,             \* position of the consumer goroutine started by init
    eventBacklog,   \* the worker's local eventBacklog slice
    i,              \* index of the backlog replay loop (0-based, as in the code)
    fn,             \* the event the sending loop has received and not yet written
    currentRetry,   \* the worker's currentRetry, in seconds
    timeout,        \* the wait armed by time.After(currentRetry), 0 when none is armed
    failStreak,     \* history: failed dials since the latest successful one
    sent,           \* history: ids successfully written to the socket, in order
    sinkTimes,      \* history: the timestamps carried by those writes
    evicted,        \* history: ids removed by the backlog size limit
    skipped,        \* history: ids dropped because formatEvent returned nil
    discarded,      \* history: ids thrown away by the drain of a logger without target
    placed,         \* history: ids put into the backlog since it was last cleared
    connSent,       \* history: what was written on the latest connection, with its origin
    dialBacklog,    \* history: the backlog at the latest successful dial
    dialAccepted,   \* history: Len(accepted) at the latest successful dial
    resetRaised,    \* history: whether that dial found currentRetry above the base
    liveFailed,     \* history: ids whose write failed in the sending loop
    winAccepted,    \* history: ids accepted during the latest disconnection window
    winHeld,        \* history: events held (backlog and queue) when that window opened
    sink,           \* the destination: "flaky" (any dial or write may fail), "down", "up"
    clock,          \* the reading of time.Now()
    counter,        \* Logger.counter
    idResults,      \* history: the values Logger.ID returned, per caller
    logTarget,      \* GO_ANNOTATE_LOG_TARGET, a string
    mode,           \* what init started: "none" before it ran
    networkType,    \* the network the socket worker dials
    wrapLogFile,    \* the legacy GO_WRAP_LOG_FILE, a string
    formatEnv,      \* GO_ANNOTATE_LOG_FORMAT, a string
    format,         \* Logger.format
    lastCall,       \* history: the latest LogEnter or LogLeave call and the event it built
    wire,           \* history: the latest event written as text and the bytes written
    building,       \* per producer: the Time of the event it has built and not yet passed
                    \* to Log, NoStamp outside LogEnter/LogLeave
    heap,           \* the backing arrays allocated so far, by address: their contents
    pools,          \* per sync.Pool: the addresses of the buffers it holds
    held,           \* per goroutine: the pool buffer it took and the copy it made
    retained,       \* history: what calls handed on (an event's Args, encoded bytes, a
                    \* string), with its address and the value it had then
    annPc,          \* where AnnotateSource is: "idle", "apply", "done", "error"
    exportedOnly,   \* Config.ExportedOnly
    decls,          \* the function declarations of the parsed file f, in order
    cursor,         \* how many of them astutil.Apply has visited
    requiresImport, \* the local of AnnotateSource
    rules,          \* Annotator.rules: the names of the functions with a rule
    imported,       \* whether the result has the import of the log package
    orig            \* history: the declarations as they were parsed

prodVars == <<eventBuffer, logCalls, accepted, faults, badIds>>
workVars == <<pc, eventBacklog, i, fn, currentRetry>>
backoffVars == <<timeout, failStreak>>
histVars == <<sent, sinkTimes, evicted, skipped, discarded, placed, connSent, dialBacklog,
              dialAccepted, resetRaised, liveFailed, winAccepted, winHeld>>
poolVars == <<heap, pools, held, retained>>
annVars == <<annPc, exportedOnly, decls, cursor, requiresImport, rules, imported, orig>>
apiVars == <<wrapLogFile, formatEnv, format, lastCall, wire, building, poolVars, annVars>>
envVars == <<sink, clock, counter, idResults, logTarget, mode, networkType, apiVars>>
vars == <<prodVars, workVars, backoffVars, histVars, envVars>>

\* ---------------------------------------------------------------- helpers
Range(s) == {s[k] : k \in 1..Len(s)}

Ids(s) == [k \in 1..Len(s) |-> s[k].id]

\* A *FuncCall: its identity, its Time, and whether the marshaller returns an
\* error on it.
FuncCall(id, merr, t) == [id |-> id, marshalErr |-> merr, time |-> t]

NoFuncCall == FuncCall(0, FALSE, 0)

Nil == <<>>

\* formatEvent: the bytes of the event, nil when marshalling failed.
formatEvent(f) == IF f.marshalErr THEN Nil ELSE <<f.id, f.time>>

\* Whether the worker is between a failure and the next successful dial.
Disconnected == pc \in {"dial", "drainLoop"}

\* What net.DialTimeout and conn.Write can do (TRUE: success) at this destination.
Outcomes == IF sink = "flaky" THEN BOOLEAN ELSE {sink = "up"}

\* --------------------------------------------------------------- producer
\* Mutant: a plain channel send, which waits while the buffer is full.
LogBlocking ==
    /\ logCalls < MaxLogCalls
    /\ Len(eventBuffer) < QueueCap
    /\ eventBuffer' = Append(eventBuffer, FuncCall(logCalls + 1, FALSE, clock))
    /\ accepted' = Append(accepted, logCalls + 1)
    /\ winAccepted' = IF Disconnected THEN Append(winAccepted, logCalls + 1)
                      ELSE winAccepted
    /\ logCalls' = logCalls + 1
    /\ UNCHANGED <<faults, badIds, workVars, backoffVars, sent, sinkTimes, evicted,
                   skipped, discarded, placed, connSent, dialBacklog, dialAccepted, resetRaised,
                   liveFailed, winHeld, envVars>>

\* Mutant: the event is refused whenever the worker has no connection.
LogDropsWhenDisconnected ==
    /\ logCalls < MaxLogCalls
    /\ IF Len(eventBuffer) < QueueCap /\ ~Disconnected
       THEN /\ eventBuffer' = Append(eventBuffer, FuncCall(logCalls + 1, FALSE, clock))
            /\ accepted' = Append(accepted, logCalls + 1)
       ELSE UNCHANGED <<eventBuffer, accepted>>
    /\ logCalls' = logCalls + 1
    /\ UNCHANGED <<faults, badIds, workVars, backoffVars, sent, sinkTimes, evicted,
                   skipped, discarded, placed, connSent, dialBacklog, dialAccepted, resetRaised,
                   liveFailed, winAccepted, winHeld, envVars>>

\* Mutant: a full queue makes room by giving up its oldest event.
LogDropsOldest ==
    /\ logCalls < MaxLogCalls
    /\ LET f == FuncCall(logCalls + 1, FALSE, clock) IN
       /\ eventBuffer' = IF Len(eventBuffer) < QueueCap
                         THEN Append(eventBuffer, f)
                         ELSE Append(Tail(eventBuffer), f)
       /\ accepted' = Append(accepted, f.id)
       /\ winAccepted' = IF Disconnected THEN Append(winAccepted, f.id)
                         ELSE winAccepted
    /\ logCalls' = logCalls + 1
    /\ UNCHANGED <<faults, badIds, workVars, backoffVars, sent, sinkTimes, evicted, skipped,
                   discarded, placed, connSent, dialBacklog, dialAccepted, resetRaised,
                   liveFailed, winHeld, envVars>>

\* select { case l.eventBuffer <- fn: default: drop }, fn being an event
\* stamped with time.Now() by its producer.
Log ==
    /\ logCalls < MaxLogCalls
    /\ \E merr \in (IF faults THEN BOOLEAN ELSE {FALSE}) :
         LET f == FuncCall(logCalls + 1, merr, clock) IN
         /\ IF Len(eventBuffer) < QueueCap
            THEN /\ eventBuffer' = Append(eventBuffer, f)
                 /\ accepted' = Append(accepted, f.id)
                 /\ winAccepted' = IF Disconnected THEN Append(winAccepted, f.id)
                                   ELSE winAccepted
            ELSE UNCHANGED <<eventBuffer, accepted, winAccepted>>
         /\ badIds' = IF merr THEN badIds \cup {f.id} ELSE badIds
    /\ logCalls' = logCalls + 1
    /\ UNCHANGED <<faults, workVars, backoffVars, sent, sinkTimes, evicted, skipped,
                   discarded, placed, connSent, dialBacklog, dialAccepted, resetRaised, liveFailed,
                   winHeld, envVars>>

\* ------------------------------------------------------------------ worker
\* Mutant: the drained event is put in front of the backlog.
PrependBacklog(b, f) == <<f>> \o b

\* eventBacklog = append(eventBacklog, fn)
AppendBacklog(b, f) == Append(b, f)

\* Mutant: the limit is applied one event early.
LimitBacklogEarly(b) ==
    IF Len(b) >= BacklogCap THEN SubSeq(b, EvictBatch + 1, Len(b)) ELSE b

\* Mutant: the backlog is never limited.
NoLimitBacklog(b) == b

\* Mutant: the newest events are evicted instead of the oldest.
EvictNewest(b) ==
    IF Len(b) > BacklogCap THEN SubSeq(b, 1, Len(b) - EvictBatch) ELSE b

\* Mutant: only the single oldest event is evicted.
EvictOne(b) == IF Len(b) > BacklogCap THEN Tail(b) ELSE b

\* if len(eventBacklog) > 10000 { eventBacklog = eventBacklog[2000:] }
LimitBacklog(b) ==
    IF Len(b) > BacklogCap THEN SubSeq(b, EvictBatch + 1, Len(b)) ELSE b

\* Mutant: the event whose live write failed is not kept.
DropFailed(b, f) == b

\* eventBacklog = append(eventBacklog, fn): the event whose live write failed
RetainFailed(b, f) == Append(b, f)

\* Mutant: the failed position is skipped (eventBacklog[i+1:]).
SkipFailedPosition(b, k) == SubSeq(b, k + 2, Len(b))

\* Mutant: the whole backlog is kept after a failed replay.
KeepWholeBacklog(b, k) == b

\* eventBacklog = eventBacklog[i:]
RemainingBacklog(b, k) == SubSeq(b, k + 1, Len(b))

\* Mutant: the doubling is not capped.
NextRetryNoCap(cur) == cur * 2

\* currentRetry *= 2; if currentRetry > maxRetry { currentRetry = maxRetry }
NextRetry(cur) == IF cur * 2 > maxRetry THEN maxRetry ELSE cur * 2

\* Mutant: a failed dial ends the process, as log.Fatalf would.
DialFailFatal ==
    /\ pc = "dial"
    /\ FALSE \in Outcomes
    /\ failStreak < MaxFailStreak
    /\ pc' = "exited"
    /\ mode' = "fatal"
    /\ failStreak' = failStreak + 1
    /\ UNCHANGED <<prodVars, eventBacklog, i, fn, currentRetry, timeout, histVars,
                   sink, clock, counter, idResults, logTarget, networkType, apiVars>>

\* net.DialTimeout fails: the worker arms time.After(currentRetry) and enters
\* the drain loop.
DialFail ==
    /\ pc = "dial"
    /\ FALSE \in Outcomes
    /\ failStreak < MaxFailStreak
    /\ pc' = "drainLoop"
    /\ timeout' = currentRetry
    /\ failStreak' = failStreak + 1
    /\ UNCHANGED <<prodVars, eventBacklog, i, fn, currentRetry, histVars, envVars>>

\* Mutant: after a successful dial the worker goes straight to the sending loop.
DialOkSkipReplay ==
    /\ pc = "dial"
    /\ TRUE \in Outcomes
    /\ pc' = "sendingLoop"
    /\ currentRetry' = retryBase
    /\ failStreak' = 0
    /\ i' = 0
    /\ connSent' = <<>>
    /\ dialBacklog' = eventBacklog
    /\ dialAccepted' = Len(accepted)
    /\ resetRaised' = (currentRetry > retryBase)
    /\ UNCHANGED <<prodVars, eventBacklog, fn, timeout, sent, sinkTimes, evicted, skipped,
                   discarded, placed, liveFailed, winAccepted, winHeld, envVars>>

\* Mutant: a successful dial leaves currentRetry as the failures left it.
DialOkNoReset ==
    /\ pc = "dial"
    /\ TRUE \in Outcomes
    /\ pc' = "replay"
    /\ failStreak' = 0
    /\ i' = 0
    /\ connSent' = <<>>
    /\ dialBacklog' = eventBacklog
    /\ dialAccepted' = Len(accepted)
    /\ resetRaised' = (currentRetry > retryBase)
    /\ UNCHANGED <<prodVars, eventBacklog, fn, currentRetry, timeout, sent, sinkTimes,
                   evicted, skipped, discarded, placed, liveFailed, winAccepted, winHeld,
                   envVars>>

\* net.DialTimeout succeeds: reset the delay, start replaying the backlog.
DialOk ==
    /\ pc = "dial"
    /\ TRUE \in Outcomes
    /\ pc' = "replay"
    /\ currentRetry' = retryBase
    /\ failStreak' = 0
    /\ i' = 0
    /\ connSent' = <<>>
    /\ dialBacklog' = eventBacklog
    /\ dialAccepted' = Len(accepted)
    /\ resetRaised' = (currentRetry > retryBase)
    /\ UNCHANGED <<prodVars, eventBacklog, fn, timeout, sent, sinkTimes, evicted, skipped,
                   discarded, placed, liveFailed, winAccepted, winHeld, envVars>>

\* drainLoop, case fn := <-l.eventBuffer
DrainRecv ==
    /\ pc = "drainLoop"
    /\ eventBuffer # <<>>
    /\ LET f == Head(eventBuffer)
           b == AppendBacklog(eventBacklog, f)
       IN /\ eventBuffer' = Tail(eventBuffer)
          /\ eventBacklog' = LimitBacklog(b)
          /\ placed' = Append(placed, f.id)
          /\ evicted' = evicted \cup
                 (Range(Ids(b)) \ Range(Ids(LimitBacklog(b))))
    /\ UNCHANGED <<logCalls, accepted, faults, badIds, pc, i, fn, currentRetry,
                   backoffVars, sent, sinkTimes, skipped, discarded, connSent,
                   dialBacklog, dialAccepted, resetRaised, liveFailed, winAccepted, winHeld, envVars>>

\* Mutant: the timer's tick is consumed and the drain loop goes on.
DrainTimeoutStays ==
    /\ pc = "drainLoop"
    /\ timeout > 0
    /\ timeout' = 0
    /\ UNCHANGED <<prodVars, workVars, failStreak, histVars, envVars>>

\* drainLoop, case <-timeout: leave the loop, double the delay, dial again
DrainTimeout ==
    /\ pc = "drainLoop"
    /\ currentRetry' = NextRetry(currentRetry)
    /\ timeout' = 0
    /\ pc' = "dial"
    /\ UNCHANGED <<prodVars, eventBacklog, i, fn, failStreak, histVars, envVars>>

\* One iteration of "for i, fn := range eventBacklog".
ReplayStep ==
    /\ pc = "replay"
    /\ i < Len(eventBacklog)
    /\ LET f == eventBacklog[i + 1] IN
       IF formatEvent(f) = Nil
       THEN /\ i' = i + 1
            /\ skipped' = skipped \cup {f.id}
            /\ UNCHANGED <<pc, eventBacklog, sent, sinkTimes, connSent, placed,
                           winAccepted, winHeld>>
       ELSE \E ok \in Outcomes :
            IF ok
            THEN /\ sent' = Append(sent, formatEvent(f)[1])
                 /\ sinkTimes' = Append(sinkTimes, formatEvent(f)[2])
                 /\ connSent' = Append(connSent, [id |-> f.id, from |-> "backlog"])
                 /\ i' = i + 1
                 /\ UNCHANGED <<pc, eventBacklog, skipped, placed, winAccepted, winHeld>>
            ELSE /\ eventBacklog' = RemainingBacklog(eventBacklog, i)
                 /\ pc' = "dial"
                 /\ winAccepted' = <<>>
                 /\ winHeld' = Len(eventBacklog') + Len(eventBuffer)
                 /\ UNCHANGED <<i, sent, sinkTimes, skipped, connSent, placed>>
    /\ UNCHANGED <<prodVars, fn, currentRetry, backoffVars, evicted, discarded,
                   dialBacklog, dialAccepted, resetRaised, liveFailed, envVars>>

\* The range loop ends: eventBacklog = nil, enter the sending loop.
ReplayDone ==
    /\ pc = "replay"
    /\ i = Len(eventBacklog)
    /\ eventBacklog' = <<>>
    /\ placed' = <<>>
    /\ pc' = "sendingLoop"
    /\ UNCHANGED <<prodVars, i, fn, currentRetry, backoffVars, sent, sinkTimes, evicted,
                   skipped, discarded, connSent, dialBacklog, dialAccepted, resetRaised, liveFailed,
                   winAccepted, winHeld, envVars>>

\* Mutant: the sending loop takes the newest queued event.
SendRecvNewest ==
    /\ pc = "sendingLoop"
    /\ eventBuffer # <<>>
    /\ fn' = eventBuffer[Len(eventBuffer)]
    /\ eventBuffer' = SubSeq(eventBuffer, 1, Len(eventBuffer) - 1)
    /\ pc' = "write"
    /\ UNCHANGED <<logCalls, accepted, faults, badIds, eventBacklog, i, currentRetry,
                   backoffVars, histVars, envVars>>

\* sendingLoop: for fn := range l.eventBuffer
SendRecv ==
    /\ pc = "sendingLoop"
    /\ eventBuffer # <<>>
    /\ fn' = Head(eventBuffer)
    /\ eventBuffer' = Tail(eventBuffer)
    /\ pc' = "write"
    /\ UNCHANGED <<logCalls, accepted, faults, badIds, eventBacklog, i, currentRetry,
                   backoffVars, histVars, envVars>>

\* Mutant: nil bytes are handled like a failed write (break sendingLoop), the
\* event being given up.
SendWriteNilDisconnects ==
    /\ pc = "write"
    /\ IF formatEvent(fn) = Nil
       THEN /\ pc' = "dial"
            /\ skipped' = skipped \cup {fn.id}
            /\ winAccepted' = <<>>
            /\ winHeld' = Len(eventBacklog) + Len(eventBuffer)
            /\ UNCHANGED <<eventBacklog, sent, sinkTimes, connSent, placed, liveFailed>>
       ELSE \E ok \in Outcomes :
            IF ok
            THEN /\ sent' = Append(sent, formatEvent(fn)[1])
                 /\ sinkTimes' = Append(sinkTimes, formatEvent(fn)[2])
                 /\ connSent' = Append(connSent, [id |-> fn.id, from |-> "queue"])
                 /\ pc' = "sendingLoop"
                 /\ UNCHANGED <<eventBacklog, skipped, placed, liveFailed, winAccepted,
                                winHeld>>
            ELSE /\ eventBacklog' = RetainFailed(eventBacklog, fn)
                 /\ placed' = Append(placed, fn.id)
                 /\ liveFailed' = liveFailed \cup {fn.id}
                 /\ pc' = "dial"
                 /\ winAccepted' = <<>>
                 /\ winHeld' = Len(eventBacklog') + Len(eventBuffer)
                 /\ UNCHANGED <<sent, sinkTimes, skipped, connSent>>
    /\ fn' = NoFuncCall
    /\ UNCHANGED <<prodVars, i, currentRetry, backoffVars, evicted, discarded,
                   dialBacklog, dialAccepted, resetRaised, envVars>>

\* Mutant: a failed live write is followed by a backoff wait before the redial.
SendWriteWaits ==
    /\ pc = "write"
    /\ IF formatEvent(fn) = Nil
       THEN /\ pc' = "sendingLoop"
            /\ skipped' = skipped \cup {fn.id}
            /\ UNCHANGED <<eventBacklog, sent, sinkTimes, connSent, placed, liveFailed,
                           winAccepted, winHeld, timeout>>
       ELSE \E ok \in Outcomes :
            IF ok
            THEN /\ sent' = Append(sent, formatEvent(fn)[1])
                 /\ sinkTimes' = Append(sinkTimes, formatEvent(fn)[2])
                 /\ connSent' = Append(connSent, [id |-> fn.id, from |-> "queue"])
                 /\ pc' = "sendingLoop"
                 /\ UNCHANGED <<eventBacklog, skipped, placed, liveFailed, winAccepted,
                                winHeld, timeout>>
            ELSE /\ eventBacklog' = RetainFailed(eventBacklog, fn)
                 /\ placed' = Append(placed, fn.id)
                 /\ liveFailed' = liveFailed \cup {fn.id}
                 /\ pc' = "drainLoop"
                 /\ timeout' = currentRetry
                 /\ winAccepted' = <<>>
                 /\ winHeld' = Len(eventBacklog') + Len(eventBuffer)
                 /\ UNCHANGED <<sent, sinkTimes, skipped, connSent>>
    /\ fn' = NoFuncCall
    /\ UNCHANGED <<prodVars, i, currentRetry, failStreak, evicted, discarded,
                   dialBacklog, dialAccepted, resetRaised, envVars>>

\* sendingLoop body: formatEvent, conn.Write
SendWrite ==
    /\ pc = "write"
    /\ IF formatEvent(fn) = Nil
       THEN /\ pc' = "sendingLoop"
            /\ skipped' = skipped \cup {fn.id}
            /\ UNCHANGED <<eventBacklog, sent, sinkTimes, connSent, placed, liveFailed,
                           winAccepted, winHeld>>
       ELSE \E ok \in Outcomes :
            IF ok
            THEN /\ sent' = Append(sent, formatEvent(fn)[1])
                 /\ sinkTimes' = Append(sinkTimes, formatEvent(fn)[2])
                 /\ connSent' = Append(connSent, [id |-> fn.id, from |-> "queue"])
                 /\ pc' = "sendingLoop"
                 /\ UNCHANGED <<eventBacklog, skipped, placed, liveFailed, winAccepted,
                                winHeld>>
            ELSE /\ eventBacklog' = RetainFailed(eventBacklog, fn)
                 /\ placed' = Append(placed, fn.id)
                 /\ liveFailed' = liveFailed \cup {fn.id}
                 /\ pc' = "dial"
                 /\ winAccepted' = <<>>
                 /\ winHeld' = Len(eventBacklog') + Len(eventBuffer)
                 /\ UNCHANGED <<sent, sinkTimes, skipped, connSent>>
    /\ fn' = NoFuncCall
    /\ UNCHANGED <<prodVars, i, currentRetry, backoffVars, evicted, discarded,
                   dialBacklog, dialAccepted, resetRaised, envVars>>

\* ----------------------------------------------------------- specification
\* Mutant: an unrecognised selector leaves the logger without a format.
FormatOfStrict(v) ==
    CASE v = "json" -> FormatJSON
      [] v = "cbor" -> FormatCBOR
      [] v = "text" -> FormatText
      [] v = "debug" -> FormatDebug
      [] OTHER -> NoFormat

\* init's switch on GO_ANNOTATE_LOG_FORMAT over var logFormat Format, whose
\* zero value stays when no case matches.
FormatOf(v) ==
    CASE v = "json" -> FormatJSON
      [] v = "cbor" -> FormatCBOR
      [] v = "text" -> FormatText
      [] v = "debug" -> FormatDebug
      [] OTHER -> 0

\* The values of the legacy GO_WRAP_LOG_FILE tried: unset and a path.
LegacyTargets == {<<>>, <<"/", "h">>}

\* The values of GO_ANNOTATE_LOG_FORMAT tried: the four selectors, unset, an
\* unknown one and a selector in the wrong case.
FormatEnvValues == {"json", "cbor", "text", "debug", "", "xml", "JSON"}

\* No LogEnter or LogLeave call was made; nothing was written as text.
NoCall == [kind |-> "none"]
NoWire == [bytes |-> ""]

\* The state init leaves behind, but for the destination and what init started.
\* No event is being built by the producer.
NoStamp == -1

\* The goroutines of the instrumented program that call LogEnter and LogLeave.
Producers == 1..NumCallers

\* The four sync.Pool variables of the package.
PoolNames == {"argBufferPool", "marshalBufferPool", "weakTermPool", "formatBufferPool"}

\* The goroutine is not between a Get and the matching Put.
NoHold == [pool |-> "", buf |-> 0, out |-> 0]

Start ==
    /\ eventBuffer = <<>>
    /\ logCalls = 0
    /\ accepted = <<>>
    /\ badIds = {}
    /\ eventBacklog = <<>>
    /\ i = 0
    /\ fn = NoFuncCall
    /\ currentRetry = retryBase
    /\ timeout = 0
    /\ failStreak = 0
    /\ sent = <<>>
    /\ sinkTimes = <<>>
    /\ evicted = {}
    /\ skipped = {}
    /\ discarded = {}
    /\ placed = <<>>
    /\ connSent = <<>>
    /\ dialBacklog = <<>>
    /\ dialAccepted = 0
    /\ resetRaised = FALSE
    /\ liveFailed = {}
    /\ winAccepted = <<>>
    /\ winHeld = 0
    /\ clock = 0
    /\ counter = 0
    /\ idResults = [c \in 1..NumCallers |-> <<>>]
    /\ lastCall = NoCall
    /\ wire = NoWire
    /\ building = [p \in Producers |-> NoStamp]
    /\ heap = <<>>
    /\ pools = [k \in PoolNames |-> {}]
    /\ held = [p \in Producers |-> NoHold]
    /\ retained = <<>>
    /\ annPc = "idle"
    /\ exportedOnly = FALSE
    /\ decls = <<>>
    /\ cursor = 0
    /\ requiresImport = FALSE
    /\ rules = <<>>
    /\ imported = FALSE
    /\ orig = <<>>

\* A target of the form host:port, the socket worker started on it.
SocketStart ==
    /\ Start
    /\ logTarget = <<"h", ":", "p">>
    /\ mode = "socket"
    /\ networkType = "tcp"
    /\ pc = "dial"
    /\ wrapLogFile = <<>>
    /\ formatEnv = ""
    /\ format = FormatOf(formatEnv)

\* The socket worker against a destination where any dial and any write may fail.
Init ==
    /\ SocketStart
    /\ faults = FALSE
    /\ sink = "flaky"

Next ==
    \/ Log
    \/ DialFail
    \/ DialOk
    \/ DrainRecv
    \/ DrainTimeout
    \/ ReplayStep
    \/ ReplayDone
    \/ SendRecv
    \/ SendWrite

Spec == Init /\ [][Next]_vars

\* ---------------------------------------------------------------- Logger.ID
\* atomic.AddUint64(addr, delta): the new value, as stored.
AddUint64(c, d) == c + d

\* Mutant: the caller gets the value the counter had before the add.
LoggerIDReturnsOld(c) ==
    /\ counter < MaxIDCalls
    /\ counter' = AddUint64(counter, 1)
    /\ idResults' = [idResults EXCEPT ![c] = Append(@, counter)]
    /\ UNCHANGED <<prodVars, workVars, backoffVars, histVars, sink, clock, logTarget,
                   mode, networkType, apiVars>>

\* func (l *Logger) ID() uint64, called by caller c.
LoggerID(c) ==
    /\ counter < MaxIDCalls
    /\ counter' = AddUint64(counter, 1)
    /\ idResults' = [idResults EXCEPT ![c] = Append(@, counter')]
    /\ UNCHANGED <<prodVars, workVars, backoffVars, histVars, sink, clock, logTarget,
                   mode, networkType, apiVars>>

NextID == \E c \in 1..NumCallers : LoggerID(c)

\* Concurrent callers of Logger.ID on one logger.
SpecID == Init /\ [][NextID]_vars

\* ------------------------------------------------- end-to-end recovery run
\* Wall-clock time advances; time.Now() reads it.
Tick ==
    /\ clock < MaxClock
    /\ clock' = clock + 1
    /\ UNCHANGED <<prodVars, workVars, backoffVars, histVars, sink, counter, idResults,
                   logTarget, mode, networkType, apiVars>>

\* The destination starts listening while the worker waits to dial again.
BringUp ==
    /\ sink = "down"
    /\ pc = "drainLoop"
    /\ sink' = "up"
    /\ UNCHANGED <<prodVars, workVars, backoffVars, histVars, clock, counter, idResults,
                   logTarget, mode, networkType, apiVars>>

\* The worker goroutine is scheduled and its retry timer fires.
FairWorker ==
    /\ WF_vars(DialFail)
    /\ WF_vars(DialOk)
    /\ WF_vars(DrainTimeout)
    /\ WF_vars(ReplayStep)
    /\ WF_vars(ReplayDone)
    /\ WF_vars(SendRecv)
    /\ WF_vars(SendWrite)

InitE2E ==
    /\ SocketStart
    /\ faults = FALSE
    /\ sink = "down"

NextE2E ==
    \/ Next
    \/ Tick
    \/ BringUp

\* The worker started against an unreachable destination that comes up later.
SpecE2E == InitE2E /\ [][NextE2E]_vars /\ FairWorker

\* ------------------------------------------------------- encoding failures
InitFaults ==
    /\ SocketStart
    /\ faults = TRUE
    /\ sink = "down"

NextFaults ==
    \/ Next
    \/ BringUp

\* The recovery run with events that formatEvent may fail to encode.
SpecFaults == InitFaults /\ [][NextFaults]_vars

\* --------------------------------------------------------- delivery disabled
\* Mutant: the goroutine looks at the head of the queue and leaves it there.
DiscardPeek ==
    /\ pc = "discard"
    /\ eventBuffer # <<>>
    /\ discarded' = discarded \cup {Head(eventBuffer).id}
    /\ UNCHANGED <<prodVars, workVars, backoffVars, sent, sinkTimes, evicted, skipped,
                   placed, connSent, dialBacklog, dialAccepted, resetRaised,
                   liveFailed, winAccepted, winHeld, envVars>>

\* for event := range defaultLogger.eventBuffer { _ = event }
Discard ==
    /\ pc = "discard"
    /\ eventBuffer # <<>>
    /\ eventBuffer' = Tail(eventBuffer)
    /\ discarded' = discarded \cup {Head(eventBuffer).id}
    /\ UNCHANGED <<logCalls, accepted, faults, badIds, workVars, backoffVars, sent,
                   sinkTimes, evicted, skipped, placed, connSent, dialBacklog,
                   dialAccepted, resetRaised, liveFailed, winAccepted, winHeld, envVars>>

InitDisabled ==
    /\ Start
    /\ logTarget = <<>>
    /\ mode = "disabled"
    /\ networkType = "none"
    /\ pc = "discard"
    /\ wrapLogFile = <<>>
    /\ formatEnv = ""
    /\ format = FormatOf(formatEnv)
    /\ faults = FALSE
    /\ sink = "down"

NextDisabled ==
    \/ Log
    \/ Discard
    \/ Tick

\* No destination configured: init started the draining goroutine.
SpecDisabled == InitDisabled /\ [][NextDisabled]_vars /\ WF_vars(Discard)

\* ------------------------------------------------------------ mode selection
\* The characters a destination string is made of: a plain one and the three
\* that the detection looks for.
Alphabet == {"h", ":", "/", "\\"}

Targets == UNION {[1..n -> Alphabet] : n \in 0..MaxTargetLen}

\* strings.Contains(s, ch) for a one-character ch.
Contains(s, ch) == \E k \in 1..Len(s) : s[k] = ch

\* Mutant: a ':' is enough, path separators are not looked at.
isSocketAddressColonOnly(addr) == Contains(addr, ":")

isSocketAddress(addr) ==
    Contains(addr, ":") /\ ~Contains(addr, "/") /\ ~Contains(addr, "\\")

\* The network type manageConnectionAndSend dials with.
NetworkTypeOf(logAddr) ==
    IF Contains(logAddr, "/") \/ Contains(logAddr, "\\") THEN "unix" ELSE "tcp"

\* init(): the format and the mode chosen from the environment and the
\* goroutine started.
RunInit ==
    /\ pc = "init"
    /\ format' = FormatOf(formatEnv)
    /\ IF logTarget = <<>>
       THEN /\ mode' = "disabled"
            /\ pc' = "discard"
            /\ networkType' = networkType
       ELSE IF isSocketAddress(logTarget)
       THEN /\ mode' = "socket"
            /\ pc' = "dial"
            /\ networkType' = NetworkTypeOf(logTarget)
       ELSE \E openOk \in BOOLEAN :
            /\ mode' = IF openOk THEN "file" ELSE "fatal"
            /\ pc' = IF openOk THEN "fileLoop" ELSE "exited"
            /\ networkType' = networkType
    /\ UNCHANGED <<prodVars, eventBacklog, i, fn, currentRetry, backoffVars, histVars,
                   sink, clock, counter, idResults, logTarget, wrapLogFile, formatEnv,
                   lastCall, wire, building, poolVars, annVars>>

InitConfig ==
    /\ Start
    /\ logTarget \in Targets
    /\ mode = "none"
    /\ networkType = "none"
    /\ pc = "init"
    /\ wrapLogFile \in LegacyTargets
    /\ formatEnv \in FormatEnvValues
    /\ format = NoFormat
    /\ faults = FALSE
    /\ sink = "down"

NextConfig == RunInit

\* Process start-up for every destination string over the alphabet.
SpecConfig == InitConfig /\ [][NextConfig]_vars

\* ------------------------------------------------------------- file worker
\* Mutant: the worker returns at the first failed write.
FileWriteStopsOnError ==
    /\ pc = "fileLoop"
    /\ eventBuffer # <<>>
    /\ LET f == Head(eventBuffer) IN
       /\ eventBuffer' = Tail(eventBuffer)
       /\ \E ok \in Outcomes :
            IF ok
            THEN /\ sent' = Append(sent, formatEvent(f)[1])
                 /\ sinkTimes' = Append(sinkTimes, formatEvent(f)[2])
                 /\ UNCHANGED <<liveFailed, pc>>
            ELSE /\ liveFailed' = liveFailed \cup {f.id}
                 /\ pc' = "exited"
                 /\ UNCHANGED <<sent, sinkTimes>>
    /\ UNCHANGED <<logCalls, accepted, faults, badIds, eventBacklog, i, fn, currentRetry,
                   backoffVars, evicted, skipped, discarded, placed, connSent, dialBacklog,
                   dialAccepted, resetRaised, winAccepted, winHeld, envVars>>

\* processLogQueueToFile: one iteration of for fn := range l.eventBuffer.
FileWrite ==
    /\ pc = "fileLoop"
    /\ eventBuffer # <<>>
    /\ LET f == Head(eventBuffer) IN
       /\ eventBuffer' = Tail(eventBuffer)
       /\ IF formatEvent(f) = Nil
          THEN /\ skipped' = skipped \cup {f.id}
               /\ UNCHANGED <<sent, sinkTimes, liveFailed>>
          ELSE /\ \E ok \in Outcomes :
                    IF ok
                    THEN /\ sent' = Append(sent, formatEvent(f)[1])
                         /\ sinkTimes' = Append(sinkTimes, formatEvent(f)[2])
                         /\ UNCHANGED liveFailed
                    ELSE /\ liveFailed' = liveFailed \cup {f.id}
                         /\ UNCHANGED <<sent, sinkTimes>>
               /\ UNCHANGED skipped
    /\ UNCHANGED <<logCalls, accepted, faults, badIds, workVars, backoffVars, evicted,
                   discarded, placed, connSent, dialBacklog, dialAccepted, resetRaised,
                   winAccepted, winHeld, envVars>>

InitFile ==
    /\ Start
    /\ logTarget = <<"/", "h">>
    /\ mode = "file"
    /\ networkType = "none"
    /\ pc = "fileLoop"
    /\ wrapLogFile = <<>>
    /\ formatEnv = ""
    /\ format = FormatOf(formatEnv)
    /\ faults = FALSE
    /\ sink = "flaky"

NextFile ==
    \/ Log
    \/ FileWrite

\* A path destination: init opened the file and started the file worker, and
\* any write to the file may fail.
SpecFile == InitFile /\ [][NextFile]_vars /\ WF_vars(FileWrite)

\* --------------------------------------------------------- process lifetime
\* One destination of each kind: none, host:port, a path.
LifeTargets == {<<>>, <<"h", ":", "h">>, <<"/", "h">>}

\* The process has passed init and has not exited.
Running == pc \notin {"init", "exited"}

\* Before init: any kind of destination; either a sink where every dial and
\* write may fail, or a sink that is down with events formatEvent may fail on.
InitLife ==
    /\ Start
    /\ logTarget \in LifeTargets
    /\ mode = "none"
    /\ networkType = "none"
    /\ pc = "init"
    /\ wrapLogFile = <<>>
    /\ formatEnv = ""
    /\ format = NoFormat
    /\ \/ faults = FALSE /\ sink = "flaky"
       \/ faults = TRUE /\ sink = "down"

NextLife ==
    \/ RunInit
    \/ /\ Running
       /\ \/ Next
          \/ BringUp
          \/ FileWrite
          \/ Discard

\* The process from init on, with the worker that init started.
SpecLife == InitLife /\ [][NextLife]_vars

\* ------------------------------------------------------ LogEnter / LogLeave
separator == "_"
EnterSuffix == "Enter"
LeaveSuffix == "Leave"

\* Argument values (any): an int, a string, nil.
IntVal(n) == [t |-> "int", n |-> n, s |-> ""]
StrVal(str) == [t |-> "string", n |-> 0, s |-> str]
NilVal == [t |-> "nil", n |-> 0, s |-> ""]

\* strconv.FormatUint(id, 10)
FormatUint(n) == ToString(n)

\* format(i any) string, for nil, int and string (%q of a plain string).
formatArg(v) ==
    CASE v.t = "nil" -> ""
      [] v.t = "int" -> ToString(v.n)
      [] v.t = "string" -> "\"" \o v.s \o "\""

\* The loops for _, arg := range args { append(formatted, format(arg)) }.
FormatAll(vs) == [k \in 1..Len(vs) |-> formatArg(vs[k])]

\* The inputs tried.
TraceIds == {12}
Names == {"f"}
ArgLists == {<<>>, <<IntVal(7)>>, <<StrVal("s"), IntVal(7)>>}
ResultLists == {<<>>, <<NilVal>>, <<NilVal, StrVal("r")>>}

\* l.Log(funcCall): the non-blocking send of a built event.
LogEvent(f) ==
    /\ IF Len(eventBuffer) < QueueCap
       THEN /\ eventBuffer' = Append(eventBuffer, f)
            /\ accepted' = Append(accepted, f.id)
       ELSE UNCHANGED <<eventBuffer, accepted>>
    /\ logCalls' = logCalls + 1

\* Mutant: the id is appended after the arguments.
LogEnterIdLast(id, name, args) ==
    /\ logCalls < MaxEventCalls
    /\ LET funcCall == [id |-> logCalls + 1, marshalErr |-> FALSE, time |-> clock,
                        Name |-> name \o separator \o EnterSuffix,
                        Args |-> FormatAll(args) \o <<FormatUint(id)>>,
                        Results |-> <<>>]
       IN /\ LogEvent(funcCall)
          /\ lastCall' = [kind |-> "enter", id |-> id, name |-> name, args |-> args,
                          results |-> <<>>, event |-> funcCall]
    /\ UNCHANGED <<faults, badIds, workVars, backoffVars, histVars, sink, clock, counter,
                   idResults, logTarget, mode, networkType, wrapLogFile, formatEnv, format, wire, building, poolVars, annVars>>

\* func (l *Logger) LogEnter(id uint64, name string, args []any)
LogEnter(id, name, args) ==
    /\ logCalls < MaxEventCalls
    /\ LET funcCall == [id |-> logCalls + 1, marshalErr |-> FALSE, time |-> clock,
                        Name |-> name \o separator \o EnterSuffix,
                        Args |-> <<FormatUint(id)>> \o FormatAll(args),
                        Results |-> <<>>]
       IN /\ LogEvent(funcCall)
          /\ lastCall' = [kind |-> "enter", id |-> id, name |-> name, args |-> args,
                          results |-> <<>>, event |-> funcCall]
    /\ UNCHANGED <<faults, badIds, workVars, backoffVars, histVars, sink, clock, counter,
                   idResults, logTarget, mode, networkType, wrapLogFile, formatEnv, format, wire, building, poolVars, annVars>>

\* func (l *Logger) LogLeave(id uint64, name string, args []any, results []any)
LogLeave(id, name, args, results) ==
    /\ logCalls < MaxEventCalls
    /\ LET funcCall == [id |-> logCalls + 1, marshalErr |-> FALSE, time |-> clock,
                        Name |-> name \o separator \o LeaveSuffix,
                        Args |-> <<FormatUint(id)>> \o FormatAll(args),
                        Results |-> FormatAll(results)]
       IN /\ LogEvent(funcCall)
          /\ lastCall' = [kind |-> "leave", id |-> id, name |-> name, args |-> args,
                          results |-> results, event |-> funcCall]
    /\ UNCHANGED <<faults, badIds, workVars, backoffVars, histVars, sink, clock, counter,
                   idResults, logTarget, mode, networkType, wrapLogFile, formatEnv, format, wire, building, poolVars, annVars>>

\* ------------------------------------------------------------ text encoding
\* strings.Join(elems, sep)
RECURSIVE Join(_, _)
Join(elems, sep) ==
    IF Len(elems) = 0 THEN ""
    ELSE IF Len(elems) = 1 THEN elems[1]
    ELSE elems[1] \o sep \o Join(Tail(elems), sep)

\* Mutant: the results part is printed whether or not there are results.
StringAlwaysResults(f) ==
    f.Name \o "(" \o Join(f.Args, ", ") \o ") = (" \o Join(f.Results, ", ") \o ")"

\* func (f *FuncCall) String() string
String(f) ==
    IF Len(f.Results) = 0
    THEN f.Name \o "(" \o Join(f.Args, ", ") \o ")"
    ELSE f.Name \o "(" \o Join(f.Args, ", ") \o ") = (" \o Join(f.Results, ", ") \o ")"

\* formatEvent(fn, FormatText): the string and a newline.
formatEventText(f) == String(f) \o "\n"

\* processLogQueueToFile on a logger whose format is FormatText: one
\* iteration, the write succeeding.
FileWriteText ==
    /\ pc = "fileLoop"
    /\ format = FormatText
    /\ eventBuffer # <<>>
    /\ TRUE \in Outcomes
    /\ LET f == Head(eventBuffer) IN
       /\ eventBuffer' = Tail(eventBuffer)
       /\ wire' = [bytes |-> formatEventText(f), event |-> f]
       /\ sent' = Append(sent, f.id)
       /\ sinkTimes' = Append(sinkTimes, f.time)
    /\ UNCHANGED <<logCalls, accepted, faults, badIds, workVars, backoffVars, evicted,
                   skipped, discarded, placed, connSent, dialBacklog, dialAccepted,
                   resetRaised, liveFailed, winAccepted, winHeld, sink, clock, counter,
                   idResults, logTarget, mode, networkType, wrapLogFile, formatEnv, format,
                   lastCall, building, poolVars, annVars>>

InitEvent ==
    /\ Start
    /\ logTarget = <<"/", "h">>
    /\ mode = "file"
    /\ networkType = "none"
    /\ pc = "fileLoop"
    /\ wrapLogFile = <<>>
    /\ formatEnv = "text"
    /\ format = FormatOf(formatEnv)
    /\ faults = FALSE
    /\ sink = "up"

NextEvent ==
    \/ \E id \in TraceIds, name \in Names, args \in ArgLists : LogEnter(id, name, args)
    \/ \E id \in TraceIds, name \in Names, args \in ArgLists, results \in ResultLists :
          LogLeave(id, name, args, results)
    \/ FileWriteText

\* Instrumented functions logging to a file in the text format.
SpecEvent == InitEvent /\ [][NextEvent]_vars

\* ------------------------------------------------------------ stabilisation
\* From here on every dial and every write succeeds.
Heal ==
    /\ sink = "flaky"
    /\ sink' = "up"
    /\ UNCHANGED <<prodVars, workVars, backoffVars, histVars, clock, counter, idResults,
                   logTarget, mode, networkType, apiVars>>

NextHeal ==
    \/ Next
    \/ Heal

\* The socket worker, fairly scheduled, against a destination that fails at
\* will and at some point may become reliable for good.
SpecHeal == Init /\ [][NextHeal]_vars /\ FairWorker

\* ------------------------------------------------ formatEvent's diagnostic
\* Whether formatEvent reaches log.Printf("Error formatting log event") on an
\* event: the check after the switch reads the function's own err, which only
\* the CBOR branch assigns; the JSON branch declares a second err with :=.
formatEventLogs(f, fmt) == f.marshalErr /\ fmt = FormatCBOR

\* --------------------------------------------------- a logger without worker
InitBare ==
    /\ Start
    /\ logTarget = <<>>
    /\ mode = "none"
    /\ networkType = "none"
    /\ pc = "none"
    /\ wrapLogFile = <<>>
    /\ formatEnv = ""
    /\ format = FormatText
    /\ faults = FALSE
    /\ sink = "down"

NextBare ==
    \/ Log
    \/ Tick
    \/ \E c \in 1..NumCallers : LoggerID(c)

\* A logger as NewLogger returns it, used by producers, with no goroutine
\* receiving from its eventBuffer.
SpecBare == InitBare /\ [][NextBare]_vars

\* ------------------------------------------- concurrent LogEnter / LogLeave
\* LogEnter/LogLeave up to the construction of funcCall: Time: time.Now().
BuildFuncCall(p) ==
    /\ building[p] = NoStamp
    /\ logCalls + Cardinality({q \in Producers : building[q] # NoStamp}) < MaxLogCalls
    /\ building' = [building EXCEPT ![p] = clock]
    /\ UNCHANGED <<prodVars, workVars, backoffVars, histVars, sink, clock, counter,
                   idResults, logTarget, mode, networkType, wrapLogFile, formatEnv,
                   format, lastCall, wire, poolVars, annVars>>

\* The last statement of LogEnter/LogLeave: l.Log(funcCall).
LogBuilt(p) ==
    /\ building[p] # NoStamp
    /\ LogEvent(FuncCall(logCalls + 1, FALSE, building[p]))
    /\ building' = [building EXCEPT ![p] = NoStamp]
    /\ UNCHANGED <<faults, badIds, workVars, backoffVars, histVars, sink, clock, counter,
                   idResults, logTarget, mode, networkType, wrapLogFile, formatEnv,
                   format, lastCall, wire, poolVars, annVars>>

InitRace ==
    /\ SocketStart
    /\ faults = FALSE
    /\ sink = "up"

NextRace ==
    \/ \E p \in Producers : BuildFuncCall(p)
    \/ \E p \in Producers : LogBuilt(p)
    \/ Tick
    \/ DialOk
    \/ ReplayDone
    \/ SendRecv
    \/ SendWrite

\* Several goroutines in LogEnter/LogLeave at once, the socket worker writing
\* to a destination that is up.
SpecRace == InitRace /\ [][NextRace]_vars

\* ------------------------------------------------------------ buffer pools
MaxPoolCalls == 3

\* What a call writes into its buffer: formatted arguments, terms, bytes.
Contents == {<<1>>, <<2, 3>>}

\* pool.Get(), buf = buf[:0], the make() taken when the capacity is too small,
\* and the appends that fill the buffer. Get hands out a buffer of the pool,
\* removing it, or a new one.
PoolGet(p, k, data) ==
    /\ held[p] = NoHold
    /\ Len(retained) + Cardinality({q \in Producers : held[q] # NoHold}) < MaxPoolCalls
    /\ \E b \in pools[k] \cup {0} : \E fits \in BOOLEAN :
          /\ pools' = [pools EXCEPT ![k] = @ \ {b}]
          /\ IF b # 0 /\ fits
             THEN /\ heap' = [heap EXCEPT ![b] = data]
                  /\ held' = [held EXCEPT ![p] = [pool |-> k, buf |-> b, out |-> 0]]
             ELSE /\ heap' = Append(heap, data)
                  /\ held' = [held EXCEPT ![p] = [pool |-> k, buf |-> Len(heap) + 1, out |-> 0]]
    /\ UNCHANGED <<prodVars, workVars, backoffVars, histVars, sink, clock, counter,
                   idResults, logTarget, mode, networkType, wrapLogFile, formatEnv,
                   format, lastCall, wire, building, retained, annVars>>

\* Mutant: the value handed on is the pool buffer itself.
PoolAlias(p) ==
    /\ held[p] # NoHold
    /\ held[p].out = 0
    /\ held' = [held EXCEPT ![p].out = held[p].buf]
    /\ UNCHANGED <<prodVars, workVars, backoffVars, histVars, sink, clock, counter,
                   idResults, logTarget, mode, networkType, wrapLogFile, formatEnv,
                   format, lastCall, wire, building, heap, pools, retained, annVars>>

\* append([]string(nil), formattedArgs...), append([]WeakTerm(nil), args...),
\* bytes = make(...); copy(bytes, buf), string(buf): the value handed on is
\* written to newly allocated storage.
PoolCopy(p) ==
    /\ held[p] # NoHold
    /\ held[p].out = 0
    /\ heap' = Append(heap, heap[held[p].buf])
    /\ held' = [held EXCEPT ![p].out = Len(heap) + 1]
    /\ UNCHANGED <<prodVars, workVars, backoffVars, histVars, sink, clock, counter,
                   idResults, logTarget, mode, networkType, wrapLogFile, formatEnv,
                   format, lastCall, wire, building, pools, retained, annVars>>

\* pool.Put(buf), then the copy leaves the call (l.Log(funcCall), return).
PoolPut(p) ==
    /\ held[p] # NoHold
    /\ held[p].out # 0
    /\ pools' = [pools EXCEPT ![held[p].pool] = @ \cup {held[p].buf}]
    /\ retained' = Append(retained, [store |-> held[p].out, value |-> heap[held[p].out],
                                     from |-> held[p].buf])
    /\ held' = [held EXCEPT ![p] = NoHold]
    /\ UNCHANGED <<prodVars, workVars, backoffVars, histVars, sink, clock, counter,
                   idResults, logTarget, mode, networkType, wrapLogFile, formatEnv,
                   format, lastCall, wire, building, heap, annVars>>

InitPool ==
    /\ InitBare

NextPool ==
    \/ \E p \in Producers, k \in PoolNames, data \in Contents : PoolGet(p, k, data)
    \/ \E p \in Producers : PoolCopy(p)
    \/ \E p \in Producers : PoolPut(p)

\* Goroutines running LogEnter, LogLeave, format, toTimedEvent and formatEvent
\* concurrently, seen at their pool operations.
SpecPool == InitPool /\ [][NextPool]_vars

\* ------------------------------------------------------------ the annotator
MaxDecls == 3

\* Function names, as sequences of letters.
FuncNames == {<<"A", "d", "d">>, <<"p", "f">>}

UpperCase == {"A"}

\* ast.IsExported: the name begins with an upper-case letter.
IsExported(name) == name[1] \in UpperCase

\* A function declaration of the source file: its name, whether it has a body
\* and results, and the number of LogEnter and LogLeave calls in its body.
FuncDecls ==
    [name : FuncNames, hasBody : BOOLEAN, hasResults : BOOLEAN, enter : {0}, leave : {0}]

RECURSIVE SeqsUpTo(_, _)
SeqsUpTo(S, n) ==
    IF n = 0 THEN {<<>>}
    ELSE LET shorter == SeqsUpTo(S, n - 1)
         IN shorter \cup {Append(q, x) : q \in {r \in shorter : Len(r) = n - 1}, x \in S}

Sources == SeqsUpTo(FuncDecls, MaxDecls)

\* annotateFunction: a declaration without body is returned as it is; otherwise
\* the new body holds the enter statements, the leave statements and the
\* original body (wrapped in a closure when the function has results).
annotateFunction(target) ==
    IF ~target.hasBody
    THEN [decl |-> target, annotated |-> FALSE]
    ELSE [decl |-> [target EXCEPT !.enter = @ + 1, !.leave = @ + 1], annotated |-> TRUE]

\* AnnotateSource up to the parse: format.Source or parser.ParseFile may fail.
ParseFile ==
    /\ annPc = "idle"
    /\ \E src \in Sources, eo \in BOOLEAN, valid \in BOOLEAN :
          IF valid
          THEN /\ annPc' = "apply"
               /\ exportedOnly' = eo
               /\ decls' = src
               /\ orig' = src
               /\ cursor' = 0
               /\ requiresImport' = FALSE
               /\ UNCHANGED <<rules, imported>>
          ELSE /\ annPc' = "error"
               /\ exportedOnly' = eo
               /\ UNCHANGED <<decls, orig, cursor, requiresImport, rules, imported>>
    /\ UNCHANGED <<prodVars, workVars, backoffVars, histVars, sink, clock, counter,
                   idResults, logTarget, mode, networkType, wrapLogFile, formatEnv,
                   format, lastCall, wire, building, poolVars>>

\* Mutant: the callback does not look at ExportedOnly.
ApplyFuncDeclAll ==
    /\ annPc = "apply"
    /\ cursor < Len(decls)
    /\ LET decl == decls[cursor + 1]
           r == annotateFunction(decl)
       IN IF r.annotated
          THEN /\ decls' = [decls EXCEPT ![cursor + 1] = r.decl]
               /\ requiresImport' = TRUE
               /\ rules' = Append(rules, decl.name)
          ELSE UNCHANGED <<decls, requiresImport, rules>>
    /\ cursor' = cursor + 1
    /\ UNCHANGED <<prodVars, workVars, backoffVars, histVars, sink, clock, counter,
                   idResults, logTarget, mode, networkType, wrapLogFile, formatEnv,
                   format, lastCall, wire, building, poolVars, annPc, exportedOnly,
                   imported, orig>>

\* The callback of astutil.Apply on one *ast.FuncDecl.
ApplyFuncDecl ==
    /\ annPc = "apply"
    /\ cursor < Len(decls)
    /\ LET decl == decls[cursor + 1]
           r == annotateFunction(decl)
       IN IF exportedOnly /\ ~IsExported(decl.name)
          THEN UNCHANGED <<decls, requiresImport, rules>>
          ELSE IF r.annotated
               THEN /\ decls' = [decls EXCEPT ![cursor + 1] = r.decl]
                    /\ requiresImport' = TRUE
                    /\ rules' = Append(rules, decl.name)
               ELSE UNCHANGED <<decls, requiresImport, rules>>
    /\ cursor' = cursor + 1
    /\ UNCHANGED <<prodVars, workVars, backoffVars, histVars, sink, clock, counter,
                   idResults, logTarget, mode, networkType, wrapLogFile, formatEnv,
                   format, lastCall, wire, building, poolVars, annPc, exportedOnly,
                   imported, orig>>

\* After the traversal: astutil.AddNamedImport if requiresImport, format.Node.
FormatNode ==
    /\ annPc = "apply"
    /\ cursor = Len(decls)
    /\ imported' = requiresImport
    /\ annPc' = "done"
    /\ UNCHANGED <<prodVars, workVars, backoffVars, histVars, sink, clock, counter,
                   idResults, logTarget, mode, networkType, wrapLogFile, formatEnv,
                   format, lastCall, wire, building, poolVars, exportedOnly, decls,
                   cursor, requiresImport, rules, orig>>

InitAnnotate ==
    /\ InitBare

NextAnnotate ==
    \/ ParseFile
    \/ ApplyFuncDecl
    \/ FormatNode

\* One call of AnnotateSource on a source file without logging calls or log
\* import, by a new Annotator.
SpecAnnotate == InitAnnotate /\ [][NextAnnotate]_vars

\* ------------------------------------------------------ claim vocabulary
RECURSIVE IsSubseq(_, _)
IsSubseq(s, t) ==
    IF s = <<>> THEN TRUE
    ELSE IF t = <<>> THEN FALSE
    ELSE IF Head(s) = Head(t) THEN IsSubseq(Tail(s), Tail(t))
    ELSE IsSubseq(s, Tail(t))

IsPrefix(s, t) == Len(s) <= Len(t) /\ s = SubSeq(t, 1, Len(s))

IsSuffix(s, t) == Len(s) <= Len(t) /\ s = SubSeq(t, Len(t) - Len(s) + 1, Len(t))

NoDuplicates(s) == \A a, b \in 1..Len(s) : a # b => s[a] # s[b]

\* Position of an accepted id in the enqueue order.
Pos(id) == CHOOSE k \in 1..Len(accepted) : accepted[k] = id

\* Ids still waiting in the queue or in the sending loop's hand.
Pending == Range(Ids(eventBuffer)) \cup (IF pc = "write" THEN {fn.id} ELSE {})

\* ids of the events of a backlog that formatEvent can encode
Encodable(b) == Ids(SelectSeq(b, LAMBDA f : formatEvent(f) # Nil))

FromBacklog == Ids(SelectSeq(connSent, LAMBDA w : w.from = "backlog"))

\* ------------------------------------------------------------------ claims

\* C1: Log never blocks and never fails the caller: in every state a Log
\* call can take its step, and that step appends the event to eventBuffer
\* when the buffer has room and otherwise leaves the buffer as it is (the
\* event is dropped); it touches nothing of the worker.
C1_LogNeverBlocks ==
    /\ [](logCalls < MaxLogCalls => ENABLED Log)
    /\ [][logCalls' # logCalls =>
            /\ logCalls' = logCalls + 1
            /\ IF Len(eventBuffer) < QueueCap
               THEN /\ Len(eventBuffer') = Len(eventBuffer) + 1
                    /\ eventBuffer'[Len(eventBuffer')].id = logCalls'
                    /\ SubSeq(eventBuffer', 1, Len(eventBuffer)) = eventBuffer
                    /\ accepted' = Append(accepted, logCalls')
               ELSE eventBuffer' = eventBuffer /\ accepted' = accepted
            /\ workVars' = workVars]_vars

\* A Log call was dropped on a full queue while the worker sits in the backoff drain.
C1_Witness ==
    /\ Len(eventBuffer) = QueueCap
    /\ logCalls > Len(accepted)
    /\ pc = "drainLoop"

\* C2: the events written to the socket are a subsequence of the enqueue order.
C2_SentInEnqueueOrder == IsSubseq(sent, accepted)

\* Events were written on two connections, the later one replaying a backlog
\* left by a failed live write.
C2_Witness ==
    /\ Len(sent) >= 3
    /\ liveFailed # {}
    /\ Len(connSent) >= 2
    /\ connSent[1].from = "backlog"
    /\ Len(connSent) < Len(sent)

\* C3: on a connection, the writes taken from the backlog are a prefix of the
\* backlog held at the dial, in backlog order, and an event taken from the
\* live queue is written only after the whole backlog was written; so after a
\* failed backlog write the connection carries no live-queue event.
C3_BacklogBeforeQueue ==
    /\ IsPrefix(FromBacklog, Encodable(dialBacklog))
    /\ \A k \in 1..Len(connSent) :
         connSent[k].from = "queue" =>
            /\ k > Len(Encodable(dialBacklog))
            /\ Ids(SubSeq(connSent, 1, Len(Encodable(dialBacklog)))) = Encodable(dialBacklog)
            /\ \A j \in 1..Len(Encodable(dialBacklog)) : connSent[j].from = "backlog"

\* A backlog of two or more events was replayed and a live event followed it.
C3_Witness ==
    /\ Len(dialBacklog) >= 2
    /\ \E k \in 1..Len(connSent) : connSent[k].from = "queue"

\* The events of the latest disconnection window survive the reconnection:
\* each is written or still waiting, and whatever was accepted later and is
\* already written comes after all of them.
WindowDelivered ==
    /\ \A e \in Range(winAccepted) : e \in Range(sent) \/ e \in Pending
    /\ \A k \in 1..Len(sent) :
         (\A e \in Range(winAccepted) : Pos(e) < Pos(sent[k])) =>
            \A e \in Range(winAccepted) :
               \E j \in 1..(k - 1) : sent[j] = e

\* The worker reconnected and no write has failed on the connection since.
Reconnected == pc \in {"sendingLoop", "write"}

\* C4 as stated: N <= C events enqueued during a disconnection window are all
\* delivered, in order and before later events, after the next successful
\* dial with all writes succeeding, however the window was opened.
C4_Original ==
    (Reconnected /\ Len(winAccepted) <= BacklogCap) => WindowDelivered

\* C4 amended: the same, when the events the worker and the queue already
\* held as the window opened, plus the N of the window, are at most C.
C4_WindowWithinCapacity ==
    (Reconnected /\ winHeld + Len(winAccepted) <= BacklogCap) => WindowDelivered

\* A window opened by a failed live write, two events enqueued in it, all
\* written after the reconnection.
C4_Witness ==
    /\ Reconnected
    /\ liveFailed # {}
    /\ winHeld >= 1
    /\ Len(winAccepted) >= 2
    /\ winHeld + Len(winAccepted) <= BacklogCap
    /\ Range(winAccepted) \subseteq Range(sent)
    /\ \E e \in Range(winAccepted) : \E w \in Range(connSent) : w.id = e /\ w.from = "backlog"

\* C5: the backlog never holds more than C events.
C5_BacklogBounded == Len(eventBacklog) <= BacklogCap

\* The backlog is full again after an overflow eviction.
C5_Witness == Len(eventBacklog) = BacklogCap /\ evicted # {}

\* C6: the retained backlog is a contiguous suffix of the sequence of events
\* placed into the backlog.
C6_BacklogIsSuffix == IsSuffix(Ids(eventBacklog), placed)

\* Two overflow evictions have happened and events remain in the backlog.
C6_Witness ==
    /\ Cardinality(evicted) >= 2 * EvictBatch
    /\ Len(eventBacklog) >= 2
    /\ Len(placed) > Len(eventBacklog)

\* C7: when the append of the drain loop makes the backlog exceed C, exactly
\* the EvictBatch oldest events leave it in that step, and no evicted event
\* is ever written to the sink.
C7_BatchEviction ==
    /\ [](Range(sent) \cap evicted = {})
    /\ [][(/\ pc = "drainLoop" /\ pc' = "drainLoop"
           /\ Len(eventBuffer') < Len(eventBuffer)
           /\ Len(eventBacklog) + 1 > BacklogCap) =>
            /\ eventBacklog' = SubSeq(Append(eventBacklog, Head(eventBuffer)),
                                      EvictBatch + 1, Len(eventBacklog) + 1)
            /\ evicted' = evicted \cup {eventBacklog[k].id : k \in 1..EvictBatch}]_vars

\* An eviction happened and events enqueued after the evicted ones were written.
C7_Witness ==
    /\ Cardinality(evicted) = EvictBatch
    /\ \E e \in evicted : \E k \in 1..Len(sent) : sent[k] > e

\* C8 as stated: an event whose live write failed is not lost: it is written,
\* or it is at the front of the backlog and nothing enqueued after it has
\* been written.
C8_Original ==
    \A f \in liveFailed :
       \/ f \in Range(sent)
       \/ /\ eventBacklog # <<>>
          /\ eventBacklog[1].id = f
          /\ \A k \in 1..Len(sent) : Pos(sent[k]) < Pos(f)

\* C8 amended: unless a backlog overflow evicted it, the event is written or
\* is at the front of the backlog with nothing later written; when it is
\* written it is the first write of its connection.
C8_FailedEventRetried ==
    \A f \in liveFailed :
       /\ \/ f \in Range(sent)
          \/ f \in evicted
          \/ /\ eventBacklog # <<>>
             /\ eventBacklog[1].id = f
             /\ \A k \in 1..Len(sent) : Pos(sent[k]) < Pos(f)
       /\ \A k \in 1..Len(connSent) : connSent[k].id = f => k = 1 /\ connSent[k].from = "backlog"

\* A failed live write was retried as the first write of the next connection,
\* and later events followed it.
C8_Witness ==
    /\ Len(connSent) >= 2
    /\ connSent[1].id \in liveFailed
    /\ connSent[2].id > connSent[1].id

\* C9: a failed write at position i of the replay leaves exactly the suffix
\* of the backlog from position i, the positions before i having been
\* written; and outside a replay nothing held in the backlog has been written,
\* so nothing is written a second time on a later connection.
C9_ReplayFailureKeepsSuffix ==
    /\ [](pc # "replay" => \A k \in 1..Len(eventBacklog) : eventBacklog[k].id \notin Range(sent))
    /\ [][(pc = "replay" /\ pc' = "dial") =>
            /\ eventBacklog' = SubSeq(eventBacklog, i + 1, Len(eventBacklog))
            /\ eventBacklog'[1] = eventBacklog[i + 1]
            /\ sent' = sent
            /\ \A k \in 1..i : formatEvent(eventBacklog[k]) # Nil =>
                  eventBacklog[k].id \in Range(sent)]_vars

\* A replay failed after writing at least one backlog event, leaving a suffix.
C9_Witness ==
    /\ pc = "dial"
    /\ Len(connSent) >= 1
    /\ \A k \in 1..Len(connSent) : connSent[k].from = "backlog"
    /\ eventBacklog # <<>>
    /\ Len(dialBacklog) = Len(connSent) + Len(eventBacklog)

\* C10: no event is written to the socket more than once.
C10_AtMostOnce == NoDuplicates(sent)

\* A replay failed part-way, and the rest of that backlog was written on a
\* later connection.
C10_Witness ==
    /\ Len(connSent) >= 1
    /\ connSent[1].from = "backlog"
    /\ Len(sent) > Len(connSent)
    /\ sent[Len(sent) - Len(connSent)] \notin liveFailed
    /\ Pos(sent[Len(sent) - Len(connSent)]) + 1 = Pos(connSent[1].id)
    /\ Len(dialBacklog) >= 1 /\ liveFailed = {}

\* The part of the backlog the worker still has to write: during a replay,
\* the entries from the loop index on.
Unreplayed ==
    IF pc = "replay" THEN SubSeq(eventBacklog, i + 1, Len(eventBacklog))
    ELSE eventBacklog

Count(s, e) == Cardinality({k \in 1..Len(s) : s[k].id = e})

\* The event is no longer held: written, evicted, dropped by the encoder or discarded.
Gone(e) == e \in Range(sent) \cup evicted \cup skipped \cup discarded

Min(a, b) == IF a < b THEN a ELSE b

\* C11 as stated: an accepted event is never in the queue and the backlog at
\* once (nor twice in either), and no delivered event is still held in the
\* backlog.
C11_Original ==
    \A e \in Range(accepted) :
       /\ Count(eventBuffer, e) + Count(eventBacklog, e) <= 1
       /\ e \in Range(sent) => Count(eventBacklog, e) = 0

\* C11 amended: an accepted event is in exactly one of the queue, the
\* worker's hand, the part of the backlog still to be replayed, or none of
\* them, and in none exactly when it was delivered, evicted or dropped.
C11_OneOwner ==
    \A e \in Range(accepted) :
       LET n == Count(eventBuffer, e) + Count(Unreplayed, e)
                + (IF pc = "write" /\ fn.id = e THEN 1 ELSE 0)
       IN /\ n <= 1
          /\ n = 0 <=> Gone(e)
          /\ (IF e \in Range(sent) THEN 1 ELSE 0) + (IF e \in evicted THEN 1 ELSE 0)
             + (IF e \in skipped THEN 1 ELSE 0) + (IF e \in discarded THEN 1 ELSE 0) <= 1

\* In the middle of a replay: events written, evicted, still to be replayed
\* and queued, all at once.
C11_Witness ==
    /\ pc = "replay"
    /\ i >= 1
    /\ i < Len(eventBacklog)
    /\ eventBuffer # <<>>
    /\ evicted # {}
    /\ sent # <<>>

\* C12: the wait armed after the k-th consecutive failed dial is
\* min(2^(k-1), 30) seconds, between the 1 s base and the 30 s cap.
C12_BackoffSchedule ==
    pc = "drainLoop" =>
       /\ failStreak >= 1
       /\ timeout = Min(2 ^ (failStreak - 1), maxRetry)
       /\ retryBase <= timeout /\ timeout <= maxRetry

\* The seventh consecutive failed dial waits the capped 30 s again.
C12_Witness ==
    /\ pc = "drainLoop"
    /\ failStreak >= 7
    /\ timeout = maxRetry

\* C13: a successful dial resets the delay to the base: while connected
\* currentRetry is 1 s, and the first failed dial after a success arms a wait
\* of exactly 1 s.
C13_ResetOnSuccess ==
    /\ [](pc \in {"replay", "sendingLoop", "write"} => currentRetry = retryBase)
    /\ [][(pc = "dial" /\ pc' = "drainLoop" /\ failStreak = 0) =>
             timeout' = retryBase]_vars

\* Failed dials had raised the delay, a dial succeeded and reset it, and the
\* next failed dial waits 1 s.
C13_Witness ==
    /\ pc = "drainLoop"
    /\ failStreak = 1
    /\ timeout = retryBase
    /\ resetRaised

\* Events accepted since the latest successful dial.
ConnAccepted == SubSeq(accepted, dialAccepted + 1, Len(accepted))

\* Ids written from the live queue on the latest connection, then the ids
\* received or queued and not yet written.
LiveThenWaiting ==
    Ids(SelectSeq(connSent, LAMBDA w : w.from = "queue"))
       \o (IF pc = "write" THEN <<fn.id>> ELSE <<>>) \o Ids(eventBuffer)

\* C14: while the connection stands (no write has failed on it), the events
\* enqueued since it was made appear at the sink exactly in their enqueue
\* order, the ones not yet written waiting in that order: none missing, none
\* added, none moved.
C14_ConnectedRoundTrip ==
    pc \in {"replay", "sendingLoop", "write"} =>
       SelectSeq(LiveThenWaiting, LAMBDA e : e \in Range(ConnAccepted)) = ConnAccepted

\* Three events enqueued while connected were all written and nothing waits.
C14_Witness ==
    /\ pc = "sendingLoop"
    /\ eventBuffer = <<>>
    /\ Len(ConnAccepted) >= 3
    /\ logCalls = Len(accepted)
    /\ liveFailed = {}
    /\ SubSeq(sent, Len(sent) - Len(ConnAccepted) + 1, Len(sent)) = ConnAccepted

RECURSIVE SumLen(_, _)
SumLen(f, n) == IF n = 0 THEN 0 ELSE Len(f[n]) + SumLen(f, n - 1)

\* C15: the n calls of Logger.ID made so far returned exactly 1..n, each once;
\* a caller's own results increase; and each call returns one more than the
\* call before it.
C15_UniqueIds ==
    /\ [](LET n == SumLen(idResults, NumCallers) IN
          /\ UNION {Range(idResults[c]) : c \in 1..NumCallers} = 1..n
          /\ \A c \in 1..NumCallers : \A k \in 1..(Len(idResults[c]) - 1) :
                idResults[c][k] < idResults[c][k + 1])
    /\ [][\A c \in 1..NumCallers :
            idResults'[c] # idResults[c] =>
               /\ Len(idResults'[c]) = Len(idResults[c]) + 1
               /\ idResults'[c][Len(idResults'[c])]
                    = 1 + SumLen(idResults, NumCallers)]_vars

\* Every caller has obtained an id and all the calls were made.
C15_Witness ==
    /\ SumLen(idResults, NumCallers) = MaxIDCalls
    /\ \A c \in 1..NumCallers : idResults[c] # <<>>

\* C16: whether a Log call is accepted is decided by the queue's occupancy
\* alone: it is accepted exactly when the queue is not full, whatever the
\* worker's position, backlog, retry delay and past failures; so runs with the
\* same occupancy give the same outcome.
C16_OutcomeByOccupancy ==
    [][logCalls' # logCalls =>
         /\ (Len(accepted') = Len(accepted) + 1) <=> (Len(eventBuffer) < QueueCap)
         /\ (accepted' = accepted) <=> (Len(eventBuffer) = QueueCap)
         /\ (eventBuffer' = eventBuffer) <=> (Len(eventBuffer) = QueueCap)]_vars

\* Events were accepted in a disconnection window after failed dials and a
\* failed write, and one was dropped on a full queue.
C16_Witness ==
    /\ pc = "drainLoop"
    /\ failStreak >= 2
    /\ liveFailed # {}
    /\ winAccepted # <<>>
    /\ logCalls > Len(accepted)

\* The worker is connected and has nothing left to write.
Quiescent == pc = "sendingLoop" /\ eventBuffer = <<>>

NonDecreasing(s) == \A k \in 1..(Len(s) - 1) : s[k] <= s[k + 1]

\* C17 as stated: after the destination has come up and the worker has caught
\* up, everything the producer enqueued is at the sink, in the original order
\* and with non-decreasing timestamps, however many events were enqueued.
C17_Original ==
    Quiescent => sent = accepted /\ NonDecreasing(sinkTimes)

\* C17: when at most BacklogCap events are enqueued before the connection is
\* made, the worker eventually catches up once the destination is up, and then
\* everything enqueued is at the sink in the original order with non-decreasing
\* timestamps.
C17_RecoveryWithinCapacity ==
    /\ []((Quiescent /\ Len(winAccepted) <= BacklogCap) =>
             (sent = accepted /\ NonDecreasing(sinkTimes)))
    /\ [](sink = "up" => <>Quiescent)

\* The destination came up after a failed dial; the events enqueued before and
\* after are all at the sink, with timestamps that differ.
C17_Witness ==
    /\ Quiescent
    /\ sink = "up"
    /\ resetRaised
    /\ Len(winAccepted) >= 2 /\ Len(winAccepted) <= BacklogCap
    /\ Len(accepted) > Len(winAccepted)
    /\ sent = accepted
    /\ sinkTimes[1] < sinkTimes[Len(sinkTimes)]

\* C18: an event that formatEvent cannot encode is the only thing lost by its
\* failure: the step that meets it drops that one event, writes nothing, keeps
\* the connection, the queue, the backlog and the retry delay, and once the
\* worker has caught up every other event not evicted is at the sink in enqueue
\* order.
C18_EncodeFailureDropsOne ==
    /\ [](skipped \subseteq badIds /\ Range(sent) \cap badIds = {})
    /\ [](Quiescent =>
            /\ sent = SelectSeq(accepted, LAMBDA e : e \notin badIds /\ e \notin evicted)
            /\ skipped = (Range(accepted) \cap badIds) \ evicted)
    /\ [][skipped' # skipped =>
            /\ Cardinality(skipped') = Cardinality(skipped) + 1
            /\ pc \in {"replay", "write"}
            /\ pc' \in {"replay", "sendingLoop"}
            /\ sent' = sent
            /\ connSent' = connSent
            /\ eventBuffer' = eventBuffer
            /\ eventBacklog' = eventBacklog
            /\ currentRetry' = currentRetry]_vars

\* One event was dropped during the replay and one in the sending loop, and
\* events behind each of them were written on the same connection.
C18_Witness ==
    /\ Quiescent
    /\ \E a \in skipped \cap Range(Ids(dialBacklog)) :
          \E k \in 1..Len(connSent) : connSent[k].from = "backlog" /\ connSent[k].id > a
    /\ \E b \in skipped \ Range(Ids(dialBacklog)) :
          \E k \in 1..Len(connSent) : connSent[k].from = "queue" /\ connSent[k].id > b

\* C19: with no destination configured nothing is ever written or kept for
\* replay, every accepted event is eventually taken from the queue and
\* discarded, and a full queue does not stay full.
C19_DisabledDiscards ==
    /\ [](sent = <<>> /\ eventBacklog = <<>> /\ pc = "discard" /\ discarded \subseteq Range(accepted))
    /\ \A e \in 1..MaxLogCalls : [](e \in Range(accepted) => <>(e \in discarded))
    /\ [](Len(eventBuffer) = QueueCap => <>(Len(eventBuffer) < QueueCap))

\* The queue was full, refused an event, and has since been emptied.
C19_Witness ==
    /\ mode = "disabled"
    /\ logCalls > Len(accepted)
    /\ Len(accepted) >= 3
    /\ discarded = Range(accepted)
    /\ eventBuffer = <<>>

\* C20 as stated: once init has run, a destination containing '/' is served
\* by the socket worker with network type "unix".
C20_UnixPathIsSocket ==
    (pc # "init" /\ Contains(logTarget, "/")) =>
       (mode = "socket" /\ networkType = "unix")

\* The positions of a destination string that hold the character ch.
Occurrences(s, ch) == {k \in 1..Len(s) : s[k] = ch}

C22_FileWriteFailureLosesOne ==
    /\ [](/\ pc = "fileLoop"
          /\ eventBacklog = <<>>
          /\ sent = SelectSeq(accepted, LAMBDA e : e \notin liveFailed
                                                  /\ e \notin Range(Ids(eventBuffer))))
    /\ [][liveFailed' # liveFailed =>
            /\ liveFailed' = liveFailed \cup {Head(eventBuffer).id}
            /\ eventBuffer' = Tail(eventBuffer)
            /\ sent' = sent]_vars
    /\ \A e \in 1..MaxLogCalls :
         [](e \in Range(accepted) => <>(e \in Range(sent) \/ e \in liveFailed))

\* A write failed and events queued behind it are in the file.
C22_Witness ==
    /\ pc = "fileLoop"
    /\ eventBuffer = <<>>
    /\ \E e \in liveFailed : \E k \in 1..Len(sent) : sent[k] > e
    /\ \E k \in 1..Len(sent) : \E e \in liveFailed : sent[k] < e

\* A step in which a dial, a write or an encoding failed, or a full queue
\* refused an event.
ErrorStep ==
    \/ failStreak' > failStreak
    \/ liveFailed' # liveFailed
    \/ skipped' # skipped
    \/ logCalls' > logCalls /\ accepted' = accepted

\* C23: the process exits only in init, on a path destination whose file
\* cannot be opened, before any event was accepted or written; once init has
\* returned nothing ends the process or its worker: a dial, write, encode or
\* queue-full error leaves the mode as it was and the worker in its loop.
C23_OnlyStartupIsFatal ==
    /\ []((mode = "fatal") <=> (pc = "exited"))
    /\ [](pc = "exited" =>
            /\ logTarget # <<>> /\ ~(Contains(logTarget, ":") /\ ~Contains(logTarget, "/"))
            /\ logCalls = 0 /\ sent = <<>> /\ failStreak = 0 /\ discarded = {})
    /\ [][pc' = "exited" => pc = "init"]_vars
    /\ [][Running => (mode' = mode /\ pc' \notin {"init", "exited"})]_vars
    /\ [][ErrorStep => (Running /\ mode' = mode /\ pc' \notin {"init", "exited"})]_vars

\* The socket worker is connected after failed dials and a failed write, with
\* an event refused by a full queue on the way.
C23_Witness ==
    /\ mode = "socket"
    /\ pc = "sendingLoop"
    /\ resetRaised
    /\ liveFailed # {}
    /\ logCalls > Len(accepted)

\* The event the latest call built has the layout the call asks for.
BuiltAsAsked(c) ==
    LET e == c.event IN
    /\ e.Name = c.name \o (IF c.kind = "enter" THEN "_Enter" ELSE "_Leave")
    /\ Len(e.Args) = Len(c.args) + 1
    /\ e.Args[1] = "12"
    /\ \A k \in 1..Len(c.args) : e.Args[k + 1] = formatArg(c.args[k])
    /\ Len(e.Results) = Len(c.results)
    /\ \A k \in 1..Len(c.results) : e.Results[k] = formatArg(c.results[k])
    /\ (c.kind = "enter" => e.Results = <<>>)

\* C24 as stated: every LogEnter and LogLeave call enqueues one event, built
\* with the suffixed name, the decimal id before the formatted arguments, and
\* the formatted results.
C24_Original ==
    [][lastCall' # lastCall \/ logCalls' # logCalls =>
         /\ BuiltAsAsked(lastCall')
         /\ eventBuffer' = Append(eventBuffer, lastCall'.event)]_vars

\* C24: every LogEnter and LogLeave call builds one event with the suffixed
\* name, the decimal id before the formatted arguments in their order, and the
\* formatted results in their order (none for LogEnter), and hands it to Log:
\* it is enqueued when the queue has room and dropped when the queue is full.
C24_EventBuiltAndSubmitted ==
    [][lastCall' # lastCall \/ logCalls' # logCalls =>
         /\ BuiltAsAsked(lastCall')
         /\ logCalls' = logCalls + 1
         /\ IF Len(eventBuffer) < QueueCap
            THEN eventBuffer' = Append(eventBuffer, lastCall'.event)
            ELSE eventBuffer' = eventBuffer]_vars

\* A LogLeave call with two arguments and two results has put its event at
\* the tail of the queue, behind the event of an earlier call.
C24_Witness ==
    /\ lastCall.kind = "leave"
    /\ Len(lastCall.args) = 2 /\ Len(lastCall.results) = 2
    /\ Len(eventBuffer) = 2
    /\ eventBuffer[2].Name = "f_Leave"
    /\ eventBuffer[2].Args = <<"12", "\"s\"", "7">>
    /\ eventBuffer[2].Results = <<"", "\"r\"">>
    /\ eventBuffer[1].Name = "f_Enter"

\* C25: whatever GO_ANNOTATE_LOG_FORMAT holds, init gives the logger a format:
\* the one named by json, cbor, text or debug, and JSON for every other value
\* (unset included); the selector has no part in whether init exits.
C25_FormatSelection ==
    pc # "init" =>
       /\ (formatEnv = "json" => format = FormatJSON)
       /\ (formatEnv = "cbor" => format = FormatCBOR)
       /\ (formatEnv = "text" => format = FormatText)
       /\ (formatEnv = "debug" => format = FormatDebug)
       /\ (formatEnv \notin {"json", "cbor", "text", "debug"} => format = FormatJSON)
       /\ (mode = "fatal" => logTarget # <<>> /\ mode # "socket")
       /\ (logTarget = <<>> => mode = "disabled")
       /\ (logTarget = <<"h", ":", "h">> => mode = "socket")

\* init has run with an unknown selector and started the socket worker with
\* the JSON format.
C25_Witness ==
    /\ pc = "dial"
    /\ formatEnv = "xml"
    /\ format = FormatJSON

\* The arguments or results of an event as the text encoding lists them.
RECURSIVE CommaList(_)
CommaList(xs) ==
    IF xs = <<>> THEN ""
    ELSE IF Len(xs) = 1 THEN xs[1]
    ELSE CommaList(SubSeq(xs, 1, Len(xs) - 1)) \o ", " \o xs[Len(xs)]

\* C26: the bytes written for an event in the text format are its name, its
\* arguments in parentheses separated by ", ", then, only when it has at least
\* one result, " = " and the results in parentheses separated by ", ", and a
\* final newline.
C26_TextEncoding ==
    wire.bytes # "" =>
       LET f == wire.event IN
       wire.bytes =
          IF f.Results = <<>>
          THEN f.Name \o "(" \o CommaList(f.Args) \o ")" \o "\n"
          ELSE f.Name \o "(" \o CommaList(f.Args) \o ")" \o " = ("
                  \o CommaList(f.Results) \o ")" \o "\n"

\* An event with results was written after one without results.
C26_Witness ==
    /\ wire.bytes = "f_Leave(12, \"s\", 7) = (, \"r\")\n"
    /\ Len(sent) = 2
    /\ lastCall.kind = "leave"

\* C27 as stated: with GO_ANNOTATE_LOG_TARGET unset and the legacy
\* GO_WRAP_LOG_FILE set, init does not leave the logger with delivery disabled.
C27_LegacyTargetHonoured ==
    (pc # "init" /\ logTarget = <<>> /\ wrapLogFile # <<>>) => mode # "disabled"

\* C28: a Log call on a full queue drops the new event and nothing else: the
\* queue keeps its events in their order, all of them older than the dropped
\* one, and the backlog, the worker's position, its retry state and what was
\* written or evicted are as before the call.
C28_FullQueueDropsNewest ==
    [][(logCalls' # logCalls /\ Len(eventBuffer) = QueueCap) =>
         /\ eventBuffer' = eventBuffer
         /\ \A k \in 1..Len(eventBuffer') : eventBuffer'[k].id < logCalls'
         /\ logCalls' \notin Range(accepted')
         /\ eventBacklog' = eventBacklog
         /\ pc' = pc /\ fn' = fn /\ i' = i
         /\ currentRetry' = currentRetry /\ timeout' = timeout
         /\ sent' = sent /\ evicted' = evicted]_vars

\* The latest Log call found the queue full while the worker was replaying a
\* backlog, and its event is nowhere.
C28_Witness ==
    /\ pc = "replay"
    /\ eventBacklog # <<>>
    /\ Len(eventBuffer) = QueueCap
    /\ logCalls >= 1
    /\ logCalls \notin Range(accepted)

\* C29: between a failed dial and the next dial attempt nothing is written to
\* the sink; every event leaving the queue in that time goes to the tail of
\* the backlog (behind what the size limit leaves of the older entries); and
\* the wait does not hold the queue back: whenever an event is queued during
\* the wait the worker can take it.
C29_DrainDuringBackoff ==
    /\ [](pc = "drainLoop" /\ eventBuffer # <<>> => ENABLED DrainRecv)
    /\ [][Disconnected => sent' = sent]_vars
    /\ [][(Disconnected /\ Len(eventBuffer') < Len(eventBuffer)) =>
            /\ pc = "drainLoop" /\ pc' = "drainLoop"
            /\ eventBuffer' = Tail(eventBuffer)
            /\ eventBacklog' # <<>>
            /\ eventBacklog'[Len(eventBacklog')] = Head(eventBuffer)
            /\ IsSuffix(eventBacklog', Append(eventBacklog, Head(eventBuffer)))
            /\ timeout' = timeout]_vars

\* The events accepted during the first backoff wait are all in the backlog,
\* in the order they were accepted, and nothing was written.
C29_Witness ==
    /\ pc = "drainLoop"
    /\ failStreak = 1
    /\ eventBuffer = <<>>
    /\ Len(winAccepted) = BacklogCap
    /\ Ids(eventBacklog) = winAccepted
    /\ sent = <<>>

\* Ids the worker still has to write: queued, in the unreplayed backlog, or in
\* the sending loop's hand.
Held ==
    Range(Ids(eventBuffer)) \cup Range(Ids(Unreplayed))
       \cup (IF pc = "write" THEN {fn.id} ELSE {})

\* C30 as stated, for the first event: once every dial and write succeeds, the
\* event, if it is in the queue or the backlog then, is eventually written.
C30_Original ==
    []((sink = "up" /\ 1 \in Held) => <>(1 \in Range(sent)))

\* C30: once every dial and every write succeeds, the worker eventually has
\* nothing left to write; by then every accepted event was written unless the
\* backlog's size limit evicted it or it could not be encoded; and from its
\* first connection on the backlog is empty and stays empty.
C30_EventualDelivery ==
    /\ [](sink = "up" => <>(Quiescent /\ eventBacklog = <<>>))
    /\ []((sink = "up" /\ Quiescent) =>
            /\ eventBacklog = <<>>
            /\ Range(accepted) \subseteq (Range(sent) \cup evicted \cup skipped))
    /\ [][(sink = "up" /\ pc \in {"sendingLoop", "write"}) =>
            (eventBacklog' = <<>> /\ pc' \in {"sendingLoop", "write"})]_vars

\* The destination became reliable after failed dials and a failed write, and
\* everything accepted, the event of the failed write included, is at the sink.
C30_Witness ==
    /\ sink = "up"
    /\ Quiescent
    /\ eventBacklog = <<>>
    /\ resetRaised
    /\ liveFailed # {}
    /\ Len(accepted) >= 3
    /\ Range(accepted) = Range(sent)

\* C31: a backoff wait always ends in a new dial attempt: the wait armed by a
\* failed dial is between 1 s and 30 s, the worker leaves the drain loop only
\* towards the dial, and under fair scheduling it does leave it, whatever was
\* enqueued and drained meanwhile.
C31_RetryAlwaysHappens ==
    /\ [](pc = "drainLoop" => <>(pc = "dial"))
    /\ [](pc = "drainLoop" => (retryBase <= timeout /\ timeout <= maxRetry))
    /\ [][(pc = "drainLoop" /\ pc' # "drainLoop") =>
            (pc' = "dial" /\ eventBuffer' = eventBuffer /\ eventBacklog' = eventBacklog)]_vars

\* The worker dials again after its second wait, with the events drained
\* during the waits in the backlog and more waiting in the queue.
C31_Witness ==
    /\ pc = "dial"
    /\ sink = "down"
    /\ failStreak = 2
    /\ Len(eventBacklog) >= 2
    /\ eventBuffer # <<>>

\* C32 as stated: after an overflow eviction the backlog holds C minus one
\* batch (the code's 10000 - 2000 = 8000) events.
C32_KeepsCapMinusBatch ==
    [][evicted' # evicted => Len(eventBacklog') = BacklogCap - EvictBatch]_vars

\* C33 as stated: every event the worker dropped because it could not be
\* encoded had a diagnostic emitted for it by formatEvent.
C33_EncodeFailureLogged ==
    \A e \in skipped : formatEventLogs(FuncCall(e, e \in badIds, 0), format)

\* C34: on a logger with no consumer nothing leaves the queue: the accepted
\* events are exactly the first QueueCap ones, still queued in that order,
\* every later call is dropped, and Log can always take its step.
C34_NoWorkerNoDrain ==
    /\ [](/\ Ids(eventBuffer) = accepted
          /\ accepted = [k \in 1..Min(logCalls, QueueCap) |-> k]
          /\ sent = <<>> /\ discarded = {} /\ eventBacklog = <<>> /\ pc = "none")
    /\ [](logCalls < MaxLogCalls => ENABLED Log)
    /\ [][logCalls' # logCalls =>
            (logCalls' = logCalls + 1
             /\ (eventBuffer' = eventBuffer <=> logCalls >= QueueCap))]_vars

\* All the calls were made: the queue holds the first QueueCap events and the
\* later ones were dropped.
C34_Witness ==
    /\ pc = "none"
    /\ logCalls = MaxLogCalls
    /\ Len(eventBuffer) = QueueCap
    /\ Ids(eventBuffer) = [k \in 1..QueueCap |-> k]

\* C35: in the live sending loop the backlog is empty; the backlog becomes
\* non-empty only after a failure (in the drain loop that follows a failed
\* dial, or by a failed live write) and becomes empty again only when a
\* backlog replay completes.
C35_BacklogEmptyWhenLive ==
    /\ [](pc \in {"sendingLoop", "write"} => eventBacklog = <<>>)
    /\ [][(eventBacklog = <<>> /\ eventBacklog' # <<>>) =>
            \/ pc = "drainLoop" /\ failStreak > 0
            \/ pc = "write" /\ pc' = "dial"]_vars
    /\ [][(eventBacklog # <<>> /\ eventBacklog' = <<>>) =>
            (pc = "replay" /\ i = Len(eventBacklog) /\ pc' = "sendingLoop")]_vars

\* The worker is back in the live loop after a failed live write whose event
\* went through the backlog and a replay.
C35_Witness ==
    /\ pc = "sendingLoop"
    /\ eventBacklog = <<>>
    /\ liveFailed # {}
    /\ dialBacklog # <<>>
    /\ connSent # <<>>

\* the worker holds one event between receiving it and writing it
InHand == IF pc = "write" THEN 1 ELSE 0

\* C36 as stated: accepted = queued + in the backlog or in the worker's hand
\* + written + evicted + dropped by the encoder, with the backlog as the
\* worker holds it.
C36_Original ==
    mode = "socket" =>
    Len(accepted) = Len(eventBuffer) + Len(eventBacklog) + InHand + Len(sent)
                      + Cardinality(evicted) + Cardinality(skipped)

\* C36 amended: the same identity with the part of the backlog that the
\* running replay has not yet gone through.
C36_Conservation ==
    mode = "socket" =>
    Len(accepted) = Len(eventBuffer) + Len(Unreplayed) + InHand + Len(sent)
                      + Cardinality(evicted) + Cardinality(skipped)

\* Every term of the identity is non-zero at once.
C36_Witness ==
    /\ mode = "socket"
    /\ pc = "replay"
    /\ i > 0
    /\ Unreplayed # <<>>
    /\ eventBuffer # <<>>
    /\ sent # <<>>
    /\ evicted # {}
    /\ skipped # {}

\* C37: the worker enters a backoff wait only from a failed dial; while it is
\* connected the delay is at its base and no timer is armed; a write failure,
\* live or during the replay, leads straight to the next dial, with no timer
\* and the delay still at its base.
C37_WaitOnlyAfterFailedDial ==
    /\ [][(pc' = "drainLoop" /\ pc # "drainLoop") =>
            (pc = "dial" /\ failStreak' = failStreak + 1 /\ timeout' = currentRetry)]_vars
    /\ [][(timeout' # timeout /\ timeout' > 0) => (pc = "dial" /\ pc' = "drainLoop")]_vars
    /\ [](pc \in {"replay", "sendingLoop", "write"} =>
            (currentRetry = retryBase /\ timeout = 0 /\ failStreak = 0))
    /\ [][(pc \in {"replay", "write"} /\ pc' \notin {"replay", "sendingLoop", "write"}) =>
            (pc' = "dial" /\ timeout' = 0 /\ currentRetry' = retryBase
             /\ failStreak' = 0 /\ eventBacklog' # <<>>)]_vars

\* The worker is about to dial for the third time in a row without a wait: a
\* live write failed, the next dial succeeded, and the first write of the
\* replay failed too.
C37_Witness ==
    /\ pc = "dial"
    /\ timeout = 0
    /\ currentRetry = retryBase
    /\ failStreak = 0
    /\ ~resetRaised
    /\ liveFailed # {}
    /\ dialBacklog # <<>>
    /\ dialBacklog = eventBacklog
    /\ connSent = <<>>

\* the timestamps of the queued events, in queue order
QueueTimes == [k \in 1..Len(eventBuffer) |-> eventBuffer[k].time]

HeldBufs == {held[p].buf : p \in {q \in Producers : held[q] # NoHold}}

PooledBufs == UNION {pools[k] : k \in PoolNames}

\* C39: a pooled buffer is held by at most one caller at a time and is not in
\* a pool while held; what a call handed on shares no storage with a pooled
\* or held buffer nor with anything else handed on, and still has the value
\* it had when it was handed on.
C39_NoSharedStorage ==
    /\ \A p, q \in Producers :
          (p # q /\ held[p] # NoHold /\ held[q] # NoHold) => held[p].buf # held[q].buf
    /\ HeldBufs \cap PooledBufs = {}
    /\ \A k, m \in PoolNames : k # m => pools[k] \cap pools[m] = {}
    /\ \A j \in 1..Len(retained) :
          /\ retained[j].store \notin HeldBufs \cup PooledBufs
          /\ heap[retained[j].store] = retained[j].value
          /\ \A n \in 1..Len(retained) : n # j => retained[n].store # retained[j].store

\* A later call has taken the buffer an earlier value was built in and has
\* overwritten it with something else.
C39_Witness ==
    \E p \in Producers : \E j \in 1..Len(retained) :
       /\ held[p] # NoHold
       /\ held[p].buf = retained[j].from
       /\ heap[held[p].buf] # retained[j].value
       /\ heap[retained[j].store] = retained[j].value

\* the declarations ExportedOnly selects: exported name, with a body
Selected(d) == IsExported(d.name) /\ d.hasBody

\* C40: with ExportedOnly set, the result of AnnotateSource has one LogEnter
\* and one LogLeave call in each exported function declaration with a body,
\* leaves every other declaration as it was, and has the log import exactly
\* when at least one function was instrumented.
C40_ExportedOnly ==
    (annPc = "done" /\ exportedOnly) =>
       /\ Len(decls) = Len(orig)
       /\ \A k \in 1..Len(orig) :
             IF Selected(orig[k])
             THEN decls[k] = [orig[k] EXCEPT !.enter = 1, !.leave = 1]
             ELSE decls[k] = orig[k]
       /\ imported <=> (\E k \in 1..Len(orig) : Selected(orig[k]))

\* A file with an exported function, an unexported function and an exported
\* declaration without body has been annotated.
C40_Witness ==
    /\ annPc = "done"
    /\ exportedOnly
    /\ imported
    /\ Len(orig) = 3
    /\ \E k \in 1..3 : Selected(orig[k]) /\ decls[k].enter = 1 /\ decls[k].leave = 1
    /\ \E k \in 1..3 : ~IsExported(orig[k].name) /\ orig[k].hasBody /\ decls[k].enter = 0
    /\ \E k \in 1..3 : IsExported(orig[k].name) /\ ~orig[k].hasBody /\ decls[k].enter = 0

====
